---- MODULE Spec2Model ----
(***************************************************************************)
(* Model of the two-stage bootstrap of the repository:                     *)
(*   - src/monolith/src/main.cpp: the self-extracting unpacker (footer,    *)
(*     key resolution, authentication tag, keystream cipher, extraction    *)
(*     and handoff);                                                       *)
(*   - src/launcher/src/main.cpp: the supervisor of the two children.      *)
(*                                                                         *)
(* 64-bit unsigned words (uint64_t) are tuples of 8 bytes, least           *)
(* significant first, so that every operation is computed modulo 2^64      *)
(* without leaving the integer range of the model checker.                 *)
(***************************************************************************)
EXTENDS Integers, Sequences, FiniteSets, TLC

VARIABLES
  \* ---- unpacker (monolith main) ----
  bpc,          \* position of main(): the stage about to run, "exec" or "failed"
  image,        \* bytes of the executable image on disk
  envKey,       \* value of HCAI_MONOLITH_KEY: [set |-> BOOLEAN, val |-> chars]
  fileSize,     \* main: fileSize
  footer,       \* main: footer (48 bytes)
  payloadSize,  \* main: payloadSize (uint64_t)
  nonce,        \* main: nonce
  authTag,      \* main: authTag (the stored tag)
  payloadStart, \* main: payloadStart (std::streamoff, as its 64-bit pattern)
  payload,      \* main: payload
  key,          \* main: key
  computedTag,  \* main: computedTag
  fs,           \* effects outside the process: temp dir, tar file, extraction, APP_ROOT
  err,          \* diagnostic written to the error stream ("" if none)
  bexit,        \* exit status of the unpacker (-1 while running or after exec)
  stages,       \* history: the stages performed so far, in order
  tamper,       \* history: the bit flipped in the image before launch, if any
  \* ---- supervisor (launcher main) ----
  pc,           \* position of main()
  hstack,       \* active onSignal invocations, innermost last
  ragPid,       \* static pid_t ragPid
  tsPid,        \* static pid_t tsPid
  forkRet,      \* value returned by fork(), not yet stored
  disp,         \* disposition of SIGINT and SIGTERM
  child,        \* per role: state and wait status of the child process
  status,       \* main: status
  finished,     \* main: finished
  tcArg,        \* main: argument of the running terminateChild call
  exitCode,     \* exit status of the supervisor (-1 while running)
  exitHow,      \* "" while running, else "return", "handler" or "killed"
  hist,         \* history of the supervisor run (signals sent, events, ...)
  \* ---- calls of the pure functions ----
  fpc,          \* "idle", "ready", "once", "twice"
  farg,         \* argument of the call
  fres          \* result of the call

bootVars == <<bpc, image, envKey, fileSize, footer, payloadSize, nonce, authTag,
              payloadStart, payload, key, computedTag, fs, err, bexit, stages, tamper>>
supVars == <<pc, hstack, ragPid, tsPid, forkRet, disp, child, status, finished,
             tcArg, exitCode, exitHow, hist>>
fnVars == <<fpc, farg, fres>>
vars == <<bootVars, supVars, fnVars>>

(***************************************************************************)
(* Bytes and 64-bit words                                                  *)
(***************************************************************************)
Byte == 0..255

RECURSIVE XorBits(_, _, _)
XorBits(a, b, n) ==
  IF n = 0 THEN 0
  ELSE (((a % 2) + (b % 2)) % 2) + 2 * XorBits(a \div 2, b \div 2, n - 1)

\* a ^ b on unsigned char
XorByte(a, b) == XorBits(a, b, 8)

RECURSIVE OrBits(_, _, _)
OrBits(a, b, n) ==
  IF n = 0 THEN 0
  ELSE (IF (a % 2) + (b % 2) > 0 THEN 1 ELSE 0) + 2 * OrBits(a \div 2, b \div 2, n - 1)

Pow2(k) ==
  CASE k = 0 -> 1 [] k = 1 -> 2 [] k = 2 -> 4 [] k = 3 -> 8 [] k = 4 -> 16
    [] k = 5 -> 32 [] k = 6 -> 64 [] k = 7 -> 128 [] OTHER -> 256

U64Zero == <<0, 0, 0, 0, 0, 0, 0, 0>>

U64Xor(p, q) ==
  <<XorByte(p[1], q[1]), XorByte(p[2], q[2]), XorByte(p[3], q[3]), XorByte(p[4], q[4]),
    XorByte(p[5], q[5]), XorByte(p[6], q[6]), XorByte(p[7], q[7]), XorByte(p[8], q[8])>>

U64Add(p, q) ==
  LET t1 == p[1] + q[1]
      t2 == p[2] + q[2] + (t1 \div 256)
      t3 == p[3] + q[3] + (t2 \div 256)
      t4 == p[4] + q[4] + (t3 \div 256)
      t5 == p[5] + q[5] + (t4 \div 256)
      t6 == p[6] + q[6] + (t5 \div 256)
      t7 == p[7] + q[7] + (t6 \div 256)
      t8 == p[8] + q[8] + (t7 \div 256)
  IN  <<t1 % 256, t2 % 256, t3 % 256, t4 % 256, t5 % 256, t6 % 256, t7 % 256, t8 % 256>>

\* two's complement: p - q modulo 2^64
U64Sub(p, q) ==
  U64Add(U64Add(p, <<255 - q[1], 255 - q[2], 255 - q[3], 255 - q[4],
                     255 - q[5], 255 - q[6], 255 - q[7], 255 - q[8]>>),
         <<1, 0, 0, 0, 0, 0, 0, 0>>)

RECURSIVE MulCol(_, _, _, _)
MulCol(p, q, k, i) == IF i > k THEN 0 ELSE p[i + 1] * q[k - i + 1] + MulCol(p, q, k, i + 1)

\* p * q modulo 2^64 (schoolbook, byte columns with carry)
U64Mul(p, q) ==
  LET t1 == MulCol(p, q, 0, 0)
      t2 == MulCol(p, q, 1, 0) + (t1 \div 256)
      t3 == MulCol(p, q, 2, 0) + (t2 \div 256)
      t4 == MulCol(p, q, 3, 0) + (t3 \div 256)
      t5 == MulCol(p, q, 4, 0) + (t4 \div 256)
      t6 == MulCol(p, q, 5, 0) + (t5 \div 256)
      t7 == MulCol(p, q, 6, 0) + (t6 \div 256)
      t8 == MulCol(p, q, 7, 0) + (t7 \div 256)
  IN  <<t1 % 256, t2 % 256, t3 % 256, t4 % 256, t5 % 256, t6 % 256, t7 % 256, t8 % 256>>

\* p >> n, 0 <= n < 64
U64Shr(p, n) ==
  LET w == n \div 8
      b == n % 8
      at(i) == IF i > 8 THEN 0 ELSE p[i]
      o(i) == ((at(i + w) + 256 * at(i + w + 1)) \div Pow2(b)) % 256
  IN  <<o(1), o(2), o(3), o(4), o(5), o(6), o(7), o(8)>>

\* a small non-negative integer as a 64-bit word
U64FromInt(n) ==
  <<n % 256, (n \div 256) % 256, (n \div 65536) % 256, (n \div 16777216) % 256, 0, 0, 0, 0>>

\* the word is below 2^31, so its value is an integer of the model
U64IsSmall(p) == p[5] = 0 /\ p[6] = 0 /\ p[7] = 0 /\ p[8] = 0 /\ p[4] < 128
U64ToInt(p) == p[1] + 256 * p[2] + 65536 * p[3] + 16777216 * p[4]

\* static_cast<std::streamoff>(u): the same 64 bits read as a signed value
S64IsNeg(p) == p[8] >= 128

\* static_cast<std::streamoff>(p) > n, for a small non-negative n
S64GtInt(p, n) == ~S64IsNeg(p) /\ (~U64IsSmall(p) \/ U64ToInt(p) > n)

\* p > n as unsigned 64-bit values, for a small non-negative n
U64GtInt(p, n) == ~U64IsSmall(p) \/ U64ToInt(p) > n

(***************************************************************************)
(* Constants of the unpacker                                               *)
(***************************************************************************)
MAGIC == <<106, 193, 83, 143, 45, 183, 68, 233>>
DEFAULT_KEY == <<145, 47, 215, 74, 131, 188, 85, 25, 224, 109, 51, 250, 8, 196, 114, 174>>
FOOTER_SIZE == 48
\* 0xcbf29ce484222325
FNV1A_OFFSET == <<37, 35, 34, 132, 228, 156, 242, 203>>
\* 0x100000001b3 = 2^40 + 0x1b3
FNV1A_PRIME == <<179, 1, 0, 0, 0, 1, 0, 0>>
\* 0x9f8b7c6d5e4f3021
AUTH_SEED_A == <<33, 48, 79, 94, 109, 124, 139, 159>>
\* 0x1023456789abcdef
AUTH_SEED_B == <<239, 205, 171, 137, 103, 69, 35, 16>>
\* "auth-v1", "auth-v2", "v1" as bytes
AUTH_V1 == <<97, 117, 116, 104, 45, 118, 49>>
AUTH_V2 == <<97, 117, 116, 104, 45, 118, 50>>
STREAM_V1 == <<118, 49>>
\* splitmix64: 0x9e3779b97f4a7c15, 0xbf58476d1ce4e5b9, 0x94d049bb133111eb
SPLITMIX_GAMMA == <<21, 124, 74, 127, 185, 121, 55, 158>>
SPLITMIX_MUL1 == <<185, 229, 228, 28, 109, 71, 88, 191>>
SPLITMIX_MUL2 == <<235, 17, 49, 19, 187, 73, 208, 148>>

(***************************************************************************)
(* readU64LE / writeU64LE                                                  *)
(***************************************************************************)
\* value |= data[i] << (8 * i), i = 0..7
readU64LE(data) ==
  <<data[1], data[2], data[3], data[4], data[5], data[6], data[7], data[8]>>

\* out[i] = (value >> (8 * i)) & 0xff, i = 0..7
writeU64LE(value) ==
  <<U64Shr(value, 0)[1], U64Shr(value, 8)[1], U64Shr(value, 16)[1], U64Shr(value, 24)[1],
    U64Shr(value, 32)[1], U64Shr(value, 40)[1], U64Shr(value, 48)[1], U64Shr(value, 56)[1]>>

(***************************************************************************)
(* FNV-1a                                                                  *)
(***************************************************************************)
\* hash ^= static_cast<uint64_t>(byte): only the low byte changes
fnvXorByte(hash, b) ==
  <<XorByte(hash[1], b), hash[2], hash[3], hash[4], hash[5], hash[6], hash[7], hash[8]>>

\* hash *= FNV1A_PRIME modulo 2^64. The prime is 2^40 + 435, so byte k of the
\* product is 435 * h[k] + h[k - 5] plus the carry.
fnvMulPrime(h) ==
  LET lo == FNV1A_PRIME[1] + 256 * FNV1A_PRIME[2]
      t1 == lo * h[1]
      t2 == lo * h[2] + (t1 \div 256)
      t3 == lo * h[3] + (t2 \div 256)
      t4 == lo * h[4] + (t3 \div 256)
      t5 == lo * h[5] + (t4 \div 256)
      t6 == lo * h[6] + FNV1A_PRIME[6] * h[1] + (t5 \div 256)
      t7 == lo * h[7] + FNV1A_PRIME[6] * h[2] + (t6 \div 256)
      t8 == lo * h[8] + FNV1A_PRIME[6] * h[3] + (t7 \div 256)
  IN  <<t1 % 256, t2 % 256, t3 % 256, t4 % 256, t5 % 256, t6 % 256, t7 % 256, t8 % 256>>

\* one iteration of the loop of fnv1a64Update
fnvStep(hash, b) == fnvMulPrime(fnvXorByte(hash, b))

\* The loop of fnv1a64Update from index i. The test on Len(hash) never fails for
\* a 64-bit word; it makes the accumulator a value at every iteration, as the
\* loop variable is.
RECURSIVE fnvLoop(_, _, _)
fnvLoop(hash, data, i) ==
  IF i > Len(data) \/ Len(hash) # 8 THEN hash
  ELSE fnvLoop(fnvStep(hash, data[i]), data, i + 1)

fnv1a64Update(hash, data) == fnvLoop(hash, data, 1)

RECURSIVE fnvChunks(_, _, _)
fnvChunks(hash, chunks, c) ==
  IF c > Len(chunks) \/ Len(hash) # 8 THEN hash
  ELSE fnvChunks(fnv1a64Update(hash, chunks[c]), chunks, c + 1)

fnv1a64(chunks, seed) == fnvChunks(seed, chunks, 1)

(***************************************************************************)
(* splitmix64: the new state and the output                                *)
(***************************************************************************)
splitmixState(state) == U64Add(state, SPLITMIX_GAMMA)

splitmixMix(z0) ==
  LET z1 == U64Mul(U64Xor(z0, U64Shr(z0, 30)), SPLITMIX_MUL1)
  IN  LET z2 == U64Mul(U64Xor(z1, U64Shr(z1, 27)), SPLITMIX_MUL2)
      IN  U64Xor(z2, U64Shr(z2, 31))

splitmix64(state) ==
  [state |-> splitmixState(state), out |-> splitmixMix(splitmixState(state))]

(***************************************************************************)
(* resolveKey                                                              *)
(***************************************************************************)
\* std::isxdigit on the character code
isxdigit(c) == (c >= 48 /\ c <= 57) \/ (c >= 97 /\ c <= 102) \/ (c >= 65 /\ c <= 70)

\* the lambda hexToNibble, its result cast to unsigned char
hexToNibble(ch) ==
  IF ch >= 48 /\ ch <= 57 THEN (ch - 48) % 256
  ELSE IF ch >= 97 /\ ch <= 102 THEN (10 + (ch - 97)) % 256
  ELSE (10 + (ch - 65)) % 256

\* key[i] = (unsigned char)((hexToNibble(hi) << 4) | hexToNibble(lo))
hexPairToByte(hi, lo) == OrBits(hexToNibble(hi) * 16, hexToNibble(lo), 12) % 256

\* the key decoded from 32 characters
hexDecodeKey(hex) ==
  <<hexPairToByte(hex[1], hex[2]), hexPairToByte(hex[3], hex[4]),
    hexPairToByte(hex[5], hex[6]), hexPairToByte(hex[7], hex[8]),
    hexPairToByte(hex[9], hex[10]), hexPairToByte(hex[11], hex[12]),
    hexPairToByte(hex[13], hex[14]), hexPairToByte(hex[15], hex[16]),
    hexPairToByte(hex[17], hex[18]), hexPairToByte(hex[19], hex[20]),
    hexPairToByte(hex[21], hex[22]), hexPairToByte(hex[23], hex[24]),
    hexPairToByte(hex[25], hex[26]), hexPairToByte(hex[27], hex[28]),
    hexPairToByte(hex[29], hex[30]), hexPairToByte(hex[31], hex[32])>>

\* Mutant of resolveKey: the characters are not checked with isxdigit.
resolveKeyUnchecked(env) ==
  IF ~env.set THEN DEFAULT_KEY
  ELSE IF Len(env.val) # 32 THEN DEFAULT_KEY
  ELSE hexDecodeKey(env.val)

\* env is the value of getenv("HCAI_MONOLITH_KEY"): unset, or a string
resolveKey(env) ==
  IF ~env.set THEN DEFAULT_KEY
  ELSE IF Len(env.val) # 32 THEN DEFAULT_KEY
  ELSE IF \E i \in 1..Len(env.val) : ~isxdigit(env.val[i]) THEN DEFAULT_KEY
  ELSE hexDecodeKey(env.val)

(***************************************************************************)
(* computeAuthTag                                                          *)
(***************************************************************************)
\* Mutant of computeAuthTag: the nonce is left out of the hashed chunks.
computeAuthTagNoNonce(pl, nc, k) ==
  writeU64LE(fnv1a64(<<k, AUTH_V1, pl>>, AUTH_SEED_A))
    \o writeU64LE(fnv1a64(<<k, AUTH_V2, pl>>, AUTH_SEED_B))

computeAuthTag(pl, nc, k) ==
  LET chunksA == <<k, nc, AUTH_V1, pl>>
      chunksB == <<k, nc, AUTH_V2, pl>>
  IN  writeU64LE(fnv1a64(chunksA, AUTH_SEED_A)) \o writeU64LE(fnv1a64(chunksB, AUTH_SEED_B))

(***************************************************************************)
(* decryptPayload                                                          *)
(***************************************************************************)
\* Mutant of decryptLoop: the mask is added to the byte instead of XORed.
RECURSIVE decryptLoopAdd(_, _, _, _, _)
decryptLoopAdd(pl, i, state, keystream, streamIndex) ==
  IF i > Len(pl) \/ Len(state) # 8 \/ Len(keystream) # 8 THEN <<>>
  ELSE LET g == IF streamIndex = 8 THEN splitmix64(state)
                ELSE [state |-> state, out |-> keystream]
           idx == IF streamIndex = 8 THEN 0 ELSE streamIndex
       IN  <<(pl[i] + U64Shr(g.out, idx * 8)[1]) % 256>>
             \o decryptLoopAdd(pl, i + 1, g.state, g.out, idx + 1)

\* a variant of decryptLoop for comparison: the bytes of a keystream word
\* are used most-significant first
RECURSIVE decryptLoopMsbFirst(_, _, _, _, _)
decryptLoopMsbFirst(pl, i, state, keystream, streamIndex) ==
  IF i > Len(pl) \/ Len(state) # 8 \/ Len(keystream) # 8 THEN <<>>
  ELSE LET g == IF streamIndex = 8 THEN splitmix64(state)
                ELSE [state |-> state, out |-> keystream]
           idx == IF streamIndex = 8 THEN 0 ELSE streamIndex
       IN  <<XorByte(pl[i], U64Shr(g.out, (7 - idx) * 8)[1])>>
             \o decryptLoopMsbFirst(pl, i + 1, g.state, g.out, idx + 1)

\* The loop body from byte i (1-based) on, with the generator state, the
\* current keystream word and streamIndex; the result is the bytes i.. of the
\* payload after the loop.
RECURSIVE decryptLoop(_, _, _, _, _)
decryptLoop(pl, i, state, keystream, streamIndex) ==
  IF i > Len(pl) \/ Len(state) # 8 \/ Len(keystream) # 8 THEN <<>>
  ELSE LET g == IF streamIndex = 8 THEN splitmix64(state)
                ELSE [state |-> state, out |-> keystream]
           idx == IF streamIndex = 8 THEN 0 ELSE streamIndex
       IN  <<XorByte(pl[i], U64Shr(g.out, idx * 8)[1])>>
             \o decryptLoop(pl, i + 1, g.state, g.out, idx + 1)

\* the number of splitmix64 calls the loop makes from byte i (1-based) on for
\* a payload of n bytes: one each time streamIndex has reached 8
RECURSIVE decryptCalls(_, _, _)
decryptCalls(n, i, streamIndex) ==
  IF i > n THEN 0
  ELSE IF streamIndex = 8 THEN 1 + decryptCalls(n, i + 1, 1)
  ELSE decryptCalls(n, i + 1, streamIndex + 1)

decryptPayload(pl, nc, k) ==
  decryptLoop(pl, 1, fnv1a64(<<k, nc, STREAM_V1>>, FNV1A_OFFSET), U64Zero, 8)

(***************************************************************************)
(* The parts of the state a specification does not use stay at these        *)
(* values.                                                                  *)
(***************************************************************************)
NoEnv == [set |-> FALSE, val |-> <<>>]
NoFs == [tempDir |-> FALSE, tarFile |-> <<>>, tarWritten |-> FALSE,
         extracted |-> FALSE, launcher |-> FALSE, appRoot |-> FALSE]
NoTamper == [done |-> FALSE, region |-> "", byte |-> 0, bit |-> 0]

BootIdle ==
  /\ bpc = "idle" /\ image = <<>> /\ envKey = NoEnv /\ fileSize = 0 /\ footer = <<>>
  /\ payloadSize = U64Zero /\ nonce = <<>> /\ authTag = <<>> /\ payloadStart = U64Zero
  /\ payload = <<>> /\ key = <<>> /\ computedTag = <<>> /\ fs = NoFs /\ err = ""
  /\ bexit = -1 /\ stages = <<>> /\ tamper = NoTamper

FnIdle == fpc = "idle" /\ farg = <<>> /\ fres = <<>>

SupIdle ==
  /\ pc = "idle" /\ hstack = <<>> /\ ragPid = -1 /\ tsPid = -1 /\ forkRet = -1
  /\ disp = <<>> /\ child = <<>> /\ status = 0 /\ finished = -1 /\ tcArg = -1
  /\ exitCode = -1 /\ exitHow = "" /\ hist = <<>>

(***************************************************************************)
(* Calls of resolveKey on the values the environment variable can take     *)
(***************************************************************************)
\* "00112233445566778899aabbccddeeff" and "0123456789ABCDEFfedcba9876543210"
HexLower == <<48, 48, 49, 49, 50, 50, 51, 51, 52, 52, 53, 53, 54, 54, 55, 55,
              56, 56, 57, 57, 97, 97, 98, 98, 99, 99, 100, 100, 101, 101, 102, 102>>
HexMixed == <<48, 49, 50, 51, 52, 53, 54, 55, 56, 57, 65, 66, 67, 68, 69, 70,
              102, 101, 100, 99, 98, 97, 57, 56, 55, 54, 53, 52, 51, 50, 49, 48>>

\* '0' '9' 'a' 'f' 'A' 'F' and the characters next to those ranges: '/' ':' '`'
\* 'g' '@' 'G', a space, and a character above 127
ProbeChars == {48, 57, 97, 102, 65, 70, 47, 58, 96, 103, 64, 71, 32, 200}

KeyStrings ==
  {[s EXCEPT ![p] = c] : s \in {HexLower, HexMixed}, p \in 1..32, c \in ProbeChars}
    \cup {<<>>, SubSeq(HexLower, 1, 31), HexLower \o <<48>>, SubSeq(HexMixed, 1, 16),
          HexLower \o HexMixed}

EnvKeyInputs == {NoEnv} \cup {[set |-> TRUE, val |-> v] : v \in KeyStrings}

InitKey ==
  /\ BootIdle /\ SupIdle
  /\ fpc = "ready" /\ fres = <<>>
  /\ farg \in {[fn |-> "resolveKey", env |-> e] : e \in EnvKeyInputs}

CallResolveKey ==
  /\ fpc = "ready" /\ farg.fn = "resolveKey"
  /\ fres' = <<resolveKey(farg.env)>>
  /\ fpc' = "once"
  /\ UNCHANGED <<farg, bootVars, supVars>>

NextKey == CallResolveKey

SpecKey == InitKey /\ [][NextKey]_vars

(***************************************************************************)
(* Calls of decryptPayload: applied once to a plaintext (encryption), then *)
(* to the result (decryption), with the same key and nonce                 *)
(***************************************************************************)
MaxCipherLen == 9

PatternBytes(n, a, b) == [i \in 1..n |-> (a * i + b) % 256]

CipherPayloads ==
  {PatternBytes(n, ab[1], ab[2]) : n \in 0..MaxCipherLen, ab \in {<<0, 0>>, <<0, 255>>, <<37, 11>>}}

\* a key set through the environment, besides the built-in one
EnvKeyBytes == resolveKey([set |-> TRUE, val |-> HexMixed])
CipherKeys == {DEFAULT_KEY, EnvKeyBytes}

NonceZero == [i \in 1..16 |-> 0]
NonceSeq == [i \in 1..16 |-> (17 * i) % 256]
CipherNonces == {NonceZero, NonceSeq}

InitCipher ==
  /\ BootIdle /\ SupIdle
  /\ fpc = "ready" /\ fres = <<>>
  /\ farg \in {[fn |-> "decryptPayload", payload |-> p, nonce |-> n, key |-> k] :
                 p \in CipherPayloads, n \in CipherNonces, k \in CipherKeys}

\* decryptPayload(payload, nonce, key) on the plaintext
CallEncrypt ==
  /\ fpc = "ready" /\ farg.fn = "decryptPayload"
  /\ fres' = <<decryptPayload(farg.payload, farg.nonce, farg.key)>>
  /\ fpc' = "once"
  /\ UNCHANGED <<farg, bootVars, supVars>>

\* decryptPayload(payload, nonce, key) on the result of the first call
CallDecrypt ==
  /\ fpc = "once" /\ farg.fn = "decryptPayload"
  /\ fres' = Append(fres, decryptPayload(fres[1], farg.nonce, farg.key))
  /\ fpc' = "twice"
  /\ UNCHANGED <<farg, bootVars, supVars>>

NextCipher == CallEncrypt \/ CallDecrypt

SpecCipher == InitCipher /\ [][NextCipher]_vars

(***************************************************************************)
(* The unpacker: main() of src/monolith/src/main.cpp, one action per stage. *)
(* A stage that throws ends the run in the catch block: the diagnostic is   *)
(* written and main returns 1.                                              *)
(***************************************************************************)
ErrSelfPath == "Unable to resolve /proc/self/exe"
ErrOpen == "Cannot open self binary"
ErrTooSmall == "Binary too small (missing footer)"
ErrReadFooter == "Cannot read footer"
ErrMagic == "Invalid monolith footer magic"
ErrPayloadSize == "Invalid payload size in footer"
ErrVectorLength == "cannot create std::vector larger than max_size()"
ErrReadPayload == "Cannot read embedded payload"
ErrAuthTag == "Invalid monolith payload auth tag"
ErrMkdtemp == "mkdtemp failed"
ErrWriteTar == "Cannot write payload tar.gz"
ErrExtract == "Failed to extract payload tar.gz"
ErrNoLauncher == "Extracted launcher not found"
ErrExecl == "execl failed to start extracted launcher"

\* a variant of Fail for comparison: the diagnostic is written and the stage
\* is tried again
FailRetries(stage, msg) ==
  /\ bpc' = bpc
  /\ err' = msg
  /\ bexit' = bexit
  /\ stages' = Append(stages, stage)

\* catch (const std::exception& e): write the diagnostic, return 1
Fail(stage, msg) ==
  /\ bpc' = "failed"
  /\ err' = msg
  /\ bexit' = 1
  /\ stages' = Append(stages, stage)

Advance(stage, next) ==
  /\ bpc' = next
  /\ stages' = Append(stages, stage)
  /\ UNCHANGED <<err, bexit>>

\* getSelfPath(): readlink("/proc/self/exe") may fail
SelfLocate ==
  /\ bpc = "selfpath"
  /\ \E ok \in BOOLEAN :
       IF ok THEN Advance("selfpath", "open") ELSE Fail("selfpath", ErrSelfPath)
  /\ UNCHANGED <<image, envKey, fileSize, footer, payloadSize, nonce, authTag,
                 payloadStart, payload, key, computedTag, fs, tamper, supVars, fnVars>>

\* std::ifstream in(selfPath, std::ios::binary); if (!in) throw
OpenSelf ==
  /\ bpc = "open"
  /\ \E ok \in BOOLEAN :
       IF ok THEN Advance("open", "size") ELSE Fail("open", ErrOpen)
  /\ UNCHANGED <<image, envKey, fileSize, footer, payloadSize, nonce, authTag,
                 payloadStart, payload, key, computedTag, fs, tamper, supVars, fnVars>>

\* fileSize = in.tellg(); if (fileSize < FOOTER_SIZE) throw
MeasureSize ==
  /\ bpc = "size"
  /\ fileSize' = Len(image)
  /\ IF Len(image) < FOOTER_SIZE THEN Fail("size", ErrTooSmall)
     ELSE Advance("size", "footer")
  /\ UNCHANGED <<image, envKey, footer, payloadSize, nonce, authTag,
                 payloadStart, payload, key, computedTag, fs, tamper, supVars, fnVars>>

\* in.seekg(fileSize - FOOTER_SIZE); in.read(footer); if (!in) throw
ReadFooter ==
  /\ bpc = "footer"
  /\ \E ok \in BOOLEAN :
       IF ok
       THEN /\ footer' = SubSeq(image, fileSize - FOOTER_SIZE + 1, fileSize)
            /\ Advance("footer", "validate")
       ELSE /\ footer' = footer
            /\ Fail("footer", ErrReadFooter)
  /\ UNCHANGED <<image, envKey, fileSize, payloadSize, nonce, authTag,
                 payloadStart, payload, key, computedTag, fs, tamper, supVars, fnVars>>

\* std::equal(MAGIC.begin(), MAGIC.end(), footer.data() + 40)
MagicMatches(ft) == SubSeq(ft, 41, 48) = MAGIC

\* payloadSize == 0 || static_cast<std::streamoff>(payloadSize) > fileSize - FOOTER_SIZE
PayloadSizeRejected(ps, size) == ps = U64Zero \/ S64GtInt(ps, size - FOOTER_SIZE)

\* lines 165-171: payloadSize, the magic check, the size check
ValidateFooter ==
  /\ bpc = "validate"
  /\ payloadSize' = readU64LE(footer)
  /\ IF ~MagicMatches(footer) THEN Fail("validate", ErrMagic)
     ELSE IF PayloadSizeRejected(readU64LE(footer), fileSize) THEN Fail("validate", ErrPayloadSize)
     ELSE Advance("validate", "payload")
  /\ UNCHANGED <<image, envKey, fileSize, footer, nonce, authTag,
                 payloadStart, payload, key, computedTag, fs, tamper, supVars, fnVars>>

\* payloadStart = fileSize - FOOTER_SIZE - static_cast<std::streamoff>(payloadSize).
\* The subtraction is signed: it overflows (undefined behaviour) when payloadSize
\* converts to a negative offset and the wrapped difference is negative too; the
\* outcomes then are the wrapped value and, as other values a build may leave,
\* offset 0 and the start of the footer.
PayloadStartOutcomes(ps, size) ==
  LET x == U64FromInt(size - FOOTER_SIZE)
      r == U64Sub(x, ps)
  IN  IF S64IsNeg(ps) /\ S64IsNeg(r) THEN {r, U64Zero, x} ELSE {r}

\* std::vector<unsigned char> payload(payloadSize) throws std::length_error
\* when payloadSize exceeds max_size() = 2^63 - 1
VectorTooLong(ps) == S64IsNeg(ps)

\* lines 173-184: nonce and authTag from the footer, payloadStart, the payload
\* buffer and its read
ReadPayload ==
  /\ bpc = "payload"
  /\ nonce' = SubSeq(footer, 9, 24)
  /\ authTag' = SubSeq(footer, 25, 40)
  /\ \E st \in PayloadStartOutcomes(payloadSize, fileSize) :
       /\ payloadStart' = st
       /\ IF VectorTooLong(payloadSize)
          THEN /\ payload' = payload
               /\ Fail("payload", ErrVectorLength)
          ELSE \E ok \in BOOLEAN :
                 IF ok /\ U64IsSmall(st) /\ U64IsSmall(payloadSize)
                       /\ U64ToInt(st) + U64ToInt(payloadSize) <= Len(image)
                 THEN /\ payload' = SubSeq(image, U64ToInt(st) + 1,
                                           U64ToInt(st) + U64ToInt(payloadSize))
                      /\ Advance("payload", "key")
                 ELSE /\ payload' = payload
                      /\ Fail("payload", ErrReadPayload)
  /\ UNCHANGED <<image, envKey, fileSize, footer, payloadSize,
                 key, computedTag, fs, tamper, supVars, fnVars>>

\* const auto key = resolveKey()
ResolveKey ==
  /\ bpc = "key"
  /\ key' = resolveKey(envKey)
  /\ Advance("key", "auth")
  /\ UNCHANGED <<image, envKey, fileSize, footer, payloadSize, nonce, authTag,
                 payloadStart, payload, computedTag, fs, tamper, supVars, fnVars>>

\* Mutant of TagsEqual: only the first 8-byte half of the tag is compared.
TagsEqualFirstHalf(computed, stored) == \A i \in 1..8 : computed[i] = stored[i]

\* std::equal(computedTag.begin(), computedTag.end(), authTag.begin())
TagsEqual(computed, stored) == \A i \in 1..Len(computed) : computed[i] = stored[i]

\* a variant of Authenticate for comparison: the temp directory is created
\* before the tags are compared
AuthenticateAfterMkdtemp ==
  /\ bpc = "auth"
  /\ computedTag' = computeAuthTag(payload, nonce, key)
  /\ fs' = [fs EXCEPT !.tempDir = TRUE]
  /\ IF TagsEqual(computeAuthTag(payload, nonce, key), authTag)
     THEN Advance("auth", "decrypt")
     ELSE Fail("auth", ErrAuthTag)
  /\ UNCHANGED <<image, envKey, fileSize, footer, payloadSize, nonce, authTag,
                 payloadStart, payload, key, tamper, supVars, fnVars>>

\* lines 187-190: the tag over the payload as read, compared with the stored tag
Authenticate ==
  /\ bpc = "auth"
  /\ computedTag' = computeAuthTag(payload, nonce, key)
  /\ IF TagsEqual(computeAuthTag(payload, nonce, key), authTag)
     THEN Advance("auth", "decrypt")
     ELSE Fail("auth", ErrAuthTag)
  /\ UNCHANGED <<image, envKey, fileSize, footer, payloadSize, nonce, authTag,
                 payloadStart, payload, key, fs, tamper, supVars, fnVars>>

\* decryptPayload(payload, nonce, key)
Decrypt ==
  /\ bpc = "decrypt"
  /\ payload' = decryptPayload(payload, nonce, key)
  /\ Advance("decrypt", "mkdtemp")
  /\ UNCHANGED <<image, envKey, fileSize, footer, payloadSize, nonce, authTag,
                 payloadStart, key, computedTag, fs, tamper, supVars, fnVars>>

\* mkdtemp(tempTemplate); if (!tempDir) throw
MakeTempDir ==
  /\ bpc = "mkdtemp"
  /\ \E ok \in BOOLEAN :
       IF ok THEN fs' = [fs EXCEPT !.tempDir = TRUE] /\ Advance("mkdtemp", "write")
       ELSE fs' = fs /\ Fail("mkdtemp", ErrMkdtemp)
  /\ UNCHANGED <<image, envKey, fileSize, footer, payloadSize, nonce, authTag,
                 payloadStart, payload, key, computedTag, tamper, supVars, fnVars>>

\* std::ofstream out(tarPath); out.write(payload); if (!out) throw. A failed
\* write may leave a file with part of the bytes.
WriteTar ==
  /\ bpc = "write"
  /\ \E ok \in BOOLEAN :
       IF ok
       THEN /\ fs' = [fs EXCEPT !.tarWritten = TRUE, !.tarFile = payload]
            /\ Advance("write", "extract")
       ELSE /\ \E n \in {0, Len(payload) - 1} :
                 fs' = [fs EXCEPT !.tarWritten = (n > 0), !.tarFile = SubSeq(payload, 1, n)]
            /\ Fail("write", ErrWriteTar)
  /\ UNCHANGED <<image, envKey, fileSize, footer, payloadSize, nonce, authTag,
                 payloadStart, payload, key, computedTag, tamper, supVars, fnVars>>

\* a variant of Extract for comparison: the status of the archive tool is
\* not looked at
ExtractIgnoresStatus ==
  /\ bpc = "extract"
  /\ \E tarStatus \in {0, 512}, has \in BOOLEAN :
       /\ fs' = [fs EXCEPT !.extracted = (tarStatus = 0), !.launcher = has]
       /\ Advance("extract", "locate")
  /\ UNCHANGED <<image, envKey, fileSize, footer, payloadSize, nonce, authTag,
                 payloadStart, payload, key, computedTag, tamper, supVars, fnVars>>

\* std::system("tar -xzf ... -C ...") != 0 throws. The archive's contents
\* decide whether huaweicloudai is among the extracted files; a tar that
\* fails may have extracted part of the archive.
Extract ==
  /\ bpc = "extract"
  /\ \E tarStatus \in {0, 512}, has \in BOOLEAN :
       IF tarStatus = 0
       THEN /\ fs' = [fs EXCEPT !.extracted = TRUE, !.launcher = has]
            /\ Advance("extract", "locate")
       ELSE /\ fs' = [fs EXCEPT !.launcher = has]
            /\ Fail("extract", ErrExtract)
  /\ UNCHANGED <<image, envKey, fileSize, footer, payloadSize, nonce, authTag,
                 payloadStart, payload, key, computedTag, tamper, supVars, fnVars>>

\* std::filesystem::exists(launcherPath)
LocateLauncher ==
  /\ bpc = "locate"
  /\ IF fs.launcher THEN Advance("locate", "setenv") ELSE Fail("locate", ErrNoLauncher)
  /\ UNCHANGED <<image, envKey, fileSize, footer, payloadSize, nonce, authTag,
                 payloadStart, payload, key, computedTag, fs, tamper, supVars, fnVars>>

\* setenv("APP_ROOT", baseDir.c_str(), 1)
SetAppRoot ==
  /\ bpc = "setenv"
  /\ fs' = [fs EXCEPT !.appRoot = TRUE]
  /\ Advance("setenv", "execl")
  /\ UNCHANGED <<image, envKey, fileSize, footer, payloadSize, nonce, authTag,
                 payloadStart, payload, key, computedTag, tamper, supVars, fnVars>>

\* execl(launcherPath, launcherPath, nullptr): on success the process image is
\* replaced and main never returns; otherwise throw
Handoff ==
  /\ bpc = "execl"
  /\ \E ok \in BOOLEAN :
       IF ok THEN Advance("execl", "handoff") ELSE Fail("execl", ErrExecl)
  /\ UNCHANGED <<image, envKey, fileSize, footer, payloadSize, nonce, authTag,
                 payloadStart, payload, key, computedTag, fs, tamper, supVars, fnVars>>

NextBoot ==
  \/ SelfLocate \/ OpenSelf \/ MeasureSize \/ ReadFooter \/ ValidateFooter
  \/ ReadPayload \/ ResolveKey \/ Authenticate \/ Decrypt \/ MakeTempDir
  \/ WriteTar \/ Extract \/ LocateLauncher \/ SetAppRoot \/ Handoff

(***************************************************************************)
(* The images the unpacker is started on: a stub (the executable proper),   *)
(* the ciphertext and the 48-byte footer; and images too short for a footer *)
(***************************************************************************)
MaxPayloadLen == 2

Stubs == {<<>>, <<127, 69>>}

BootPayloads ==
  {PatternBytes(n, ab[1], ab[2]) : n \in 1..MaxPayloadLen, ab \in {<<0, 90>>, <<0, 255>>}}

\* payloadSize fields: zero, the ciphertext's length, one byte, everything before
\* the footer, one byte more than that, and the wide values 2^31, 2^63, 2^64 - 2
\* and 2^64 - 1
DeclaredSizes(stub, ct) ==
  {U64FromInt(k) : k \in {0, 1, Len(ct), Len(stub) + Len(ct), Len(stub) + Len(ct) + 1}}
    \cup {<<0, 0, 0, 128, 0, 0, 0, 0>>, <<0, 0, 0, 0, 0, 0, 0, 128>>,
          <<254, 255, 255, 255, 255, 255, 255, 255>>,
          <<255, 255, 255, 255, 255, 255, 255, 255>>}

\* the bytes a well-formed footer declares: the last ps bytes before the footer
DeclaredRegion(stub, ct, ps) ==
  LET all == stub \o ct
  IN  IF U64IsSmall(ps) /\ U64ToInt(ps) >= 1 /\ U64ToInt(ps) <= Len(all)
      THEN SubSeq(all, Len(all) - U64ToInt(ps) + 1, Len(all))
      ELSE ct

BadMagic == [MAGIC EXCEPT ![8] = 232]

\* stored tags: the tag under the built-in key, the tag under the key of the
\* environment, a tag whose last byte is wrong, and sixteen zero bytes
StoredTags(region, nc) ==
  LET good == computeAuthTag(region, nc, DEFAULT_KEY)
  IN  {good, computeAuthTag(region, nc, EnvKeyBytes),
       [good EXCEPT ![16] = (@ + 1) % 256], [i \in 1..16 |-> 0]}

MakeFooter(ps, nc, tag, magic) == ps \o nc \o tag \o magic

MakeImage(stub, ct, ps, nc, tag, magic) == stub \o ct \o MakeFooter(ps, nc, tag, magic)

BootImages ==
  UNION {UNION {{MakeImage(stub, ct, ps, NonceSeq, tag, MAGIC) :
                    tag \in StoredTags(DeclaredRegion(stub, ct, ps), NonceSeq)}
                  \cup {MakeImage(stub, ct, ps, NonceSeq,
                                  computeAuthTag(DeclaredRegion(stub, ct, ps), NonceSeq, DEFAULT_KEY),
                                  BadMagic)} :
                ps \in DeclaredSizes(stub, ct)} :
         stub \in Stubs, ct \in BootPayloads}
    \cup {<<>>, SubSeq(MakeFooter(U64FromInt(1), NonceSeq, NonceZero, MAGIC), 2, 48),
          MakeFooter(U64Zero, NonceSeq, computeAuthTag(<<>>, NonceSeq, DEFAULT_KEY), MAGIC),
          MakeFooter(U64FromInt(1), NonceSeq, NonceZero, MAGIC)}

BootEnvKeys ==
  {NoEnv, [set |-> TRUE, val |-> HexMixed], [set |-> TRUE, val |-> SubSeq(HexMixed, 1, 31)]}

BootStart ==
  /\ bpc = "selfpath"
  /\ fileSize = 0 /\ footer = <<>> /\ payloadSize = U64Zero /\ nonce = <<>>
  /\ authTag = <<>> /\ payloadStart = U64Zero /\ payload = <<>> /\ key = <<>>
  /\ computedTag = <<>> /\ fs = NoFs /\ err = "" /\ bexit = -1 /\ stages = <<>>
  /\ tamper = NoTamper

Init ==
  /\ BootStart
  /\ image \in BootImages
  /\ envKey \in BootEnvKeys
  /\ SupIdle /\ FnIdle

Next == NextBoot

Spec == Init /\ [][Next]_vars

(***************************************************************************)
(* Tampering: before the unpacker starts, one bit of the ciphertext, of the *)
(* nonce or of the stored tag of an image is flipped. The images here are   *)
(* built with the tag of the key the unpacker will resolve.                 *)
(***************************************************************************)
MaxTamperLen == 2

TamperPayloads ==
  {PatternBytes(n, ab[1], ab[2]) : n \in 1..MaxTamperLen, ab \in {<<0, 90>>, <<37, 11>>}}

TamperStarts ==
  {[image |-> MakeImage(<<127, 69>>, ct, U64FromInt(Len(ct)), NonceSeq,
                        computeAuthTag(ct, NonceSeq, resolveKey(e)), MAGIC),
    env |-> e] : ct \in TamperPayloads, e \in {NoEnv, [set |-> TRUE, val |-> HexMixed]}}

InitTamper ==
  /\ BootStart
  /\ \E s \in TamperStarts : image = s.image /\ envKey = s.env
  /\ SupIdle /\ FnIdle

\* the 1-based index in the image of byte i (0-based) of a region
RegionIndex(img, region, i) ==
  LET base == Len(img) - FOOTER_SIZE
      ps == U64ToInt(readU64LE(SubSeq(img, base + 1, base + 8)))
  IN  CASE region = "ciphertext" -> base - ps + 1 + i
        [] region = "nonce" -> base + 8 + 1 + i
        [] region = "tag" -> base + 24 + 1 + i

RegionLen(img, region) ==
  LET base == Len(img) - FOOTER_SIZE
  IN  IF region = "ciphertext" THEN U64ToInt(readU64LE(SubSeq(img, base + 1, base + 8)))
      ELSE 16

TamperBit ==
  /\ bpc = "selfpath" /\ ~tamper.done
  /\ \E region \in {"ciphertext", "nonce", "tag"} :
       \E i \in 0..(RegionLen(image, region) - 1), b \in 0..7 :
         /\ image' = [image EXCEPT ![RegionIndex(image, region, i)] = XorByte(@, Pow2(b))]
         /\ tamper' = [done |-> TRUE, region |-> region, byte |-> i, bit |-> b]
  /\ UNCHANGED <<bpc, envKey, fileSize, footer, payloadSize, nonce, authTag, payloadStart,
                 payload, key, computedTag, fs, err, bexit, stages, supVars, fnVars>>

NextTamper == NextBoot \/ TamperBit

SpecTamper == InitTamper /\ [][NextTamper]_vars

(***************************************************************************)
(* Properties of the unpacker                                              *)
(***************************************************************************)
Did(stage) == \E i \in 1..Len(stages) : stages[i] = stage

PostAuthStages == {"decrypt", "mkdtemp", "write", "extract", "locate", "setenv", "execl"}

FormatErrors == {ErrTooSmall, ErrMagic, ErrPayloadSize}

\* the stored tag and the recomputed tag are both present and equal byte for byte
TagsAgree ==
  /\ Len(computedTag) = 16 /\ Len(authTag) = 16
  /\ \A i \in 1..16 : computedTag[i] = authTag[i]

\* the ciphertext region the footer of the image declares, for a declared size
\* that fits the file
CiphertextOf(img) ==
  LET base == Len(img) - FOOTER_SIZE
      ps == U64ToInt(readU64LE(SubSeq(img, base + 1, base + 8)))
  IN  SubSeq(img, base - ps + 1, base)

\* C1: verify-then-decrypt. Decryption, the temp directory, the plaintext write,
\* the extraction and the handoff each happen only after the authentication
\* stage found the recomputed tag equal to the stored tag byte for byte; after a
\* mismatch the run has failed with the authentication diagnostic, the payload
\* is still the ciphertext as read, and nothing was created outside the process.
C1_VerifyThenDecrypt ==
  /\ \A i \in 1..Len(stages) :
       stages[i] \in PostAuthStages =>
         /\ \E j \in 1..(i - 1) : stages[j] = "auth"
         /\ TagsAgree
  /\ (fs # NoFs \/ bpc = "handoff") => (Did("auth") /\ TagsAgree)
  /\ (Did("auth") /\ ~TagsAgree) =>
       /\ bpc = "failed" /\ err = ErrAuthTag /\ bexit = 1
       /\ fs = NoFs
       /\ \A s \in PostAuthStages : ~Did(s)
       /\ payload = CiphertextOf(image)

\* C1 witness: an authenticated image was decrypted, extracted and handed off.
C1_Witness ==
  /\ bpc = "handoff" /\ Did("decrypt") /\ TagsAgree
  /\ fs.extracted /\ fs.tarFile = payload /\ payload # CiphertextOf(image)

\* C2: tamper detection. Every image of the tampering specification
\* authenticates when it is left alone; with any single bit of its ciphertext,
\* nonce or stored tag flipped, the recomputed tag differs from the stored one,
\* the run fails at authentication and decryption is never attempted.
C2_TamperDetected ==
  /\ (~tamper.done /\ Did("auth")) => (TagsAgree /\ err # ErrAuthTag)
  /\ tamper.done =>
       /\ \A s \in PostAuthStages : ~Did(s)
       /\ fs = NoFs /\ bpc # "handoff"
       /\ Did("auth") => (~TagsAgree /\ bpc = "failed" /\ err = ErrAuthTag)
       /\ Did("validate") => (bpc = "failed" => err \notin FormatErrors)

\* C2 witness: a flipped nonce bit was caught at authentication.
C2_Witness ==
  /\ tamper.done /\ tamper.region = "nonce" /\ tamper.byte = 15 /\ tamper.bit = 7
  /\ Did("auth") /\ err = ErrAuthTag

\* the image violates the footer contract: shorter than the footer, wrong magic,
\* declared size zero, or declared size (an unsigned 64-bit value) larger than
\* the bytes before the footer
Malformed(img) ==
  \/ Len(img) < FOOTER_SIZE
  \/ /\ Len(img) >= FOOTER_SIZE
     /\ LET ft == SubSeq(img, Len(img) - FOOTER_SIZE + 1, Len(img))
        IN  \/ SubSeq(ft, 41, 48) # MAGIC
            \/ readU64LE(ft) = U64Zero
            \/ U64GtInt(readU64LE(ft), Len(img) - FOOTER_SIZE)

\* C3: footer rejection. An image that is too short, has a wrong magic, declares
\* a zero payload size or declares more bytes than precede the footer is
\* rejected by the footer checks with a format error: the run never gets past
\* the validation stage, never resolves the key, never computes a tag or a
\* keystream.
C3_FooterRejection ==
  Malformed(image) =>
    /\ (Did("size") /\ Len(image) < FOOTER_SIZE) => (bpc = "failed" /\ err = ErrTooSmall)
    /\ Did("validate") => (bpc = "failed" /\ err \in FormatErrors)
    /\ ~Did("payload") /\ ~Did("key") /\ ~Did("auth") /\ ~Did("decrypt")
    /\ key = <<>> /\ computedTag = <<>>

\* C4: payload bounds. Past the footer validation, 0 < payloadSize <= fileSize - 48
\* as 64-bit unsigned values, the start offset fileSize - 48 - payloadSize is not
\* negative, and a payload that was read is exactly that region of the image.
C4_PayloadBounds ==
  (Did("validate") /\ bpc # "failed") =>
    /\ payloadSize # U64Zero
    /\ ~U64GtInt(payloadSize, fileSize - FOOTER_SIZE)
    /\ Did("payload") =>
         /\ ~S64IsNeg(payloadStart)
         /\ U64ToInt(payloadStart) = fileSize - FOOTER_SIZE - U64ToInt(payloadSize)
         /\ Len(payload) = U64ToInt(payloadSize)

(***************************************************************************)
(* Properties of the pure functions                                        *)
(***************************************************************************)
\* C5: round trip. decryptPayload keeps the length, and applying it twice with
\* the same key and nonce gives back the original bytes, for every payload
\* length from 0 up.
C5_RoundTrip ==
  (farg # <<>> /\ farg.fn = "decryptPayload") =>
    /\ \A r \in 1..Len(fres) : Len(fres[r]) = Len(farg.payload)
    /\ fpc = "twice" => (Len(fres) = 2 /\ fres[2] = farg.payload)

\* C5 witness: a payload longer than one keystream word went through both calls
\* and the first call changed it.
C5_Witness ==
  /\ fpc = "twice" /\ Len(farg.payload) > 8
  /\ fres[1] # farg.payload /\ fres[2] = farg.payload

\* the value of a hexadecimal digit, by its place among the digits
HexDigits == <<48, 49, 50, 51, 52, 53, 54, 55, 56, 57>>
HexLettersLower == <<97, 98, 99, 100, 101, 102>>
HexLettersUpper == <<65, 66, 67, 68, 69, 70>>
IsHexChar(c) ==
  \/ \E d \in 1..10 : HexDigits[d] = c
  \/ \E d \in 1..6 : HexLettersLower[d] = c \/ HexLettersUpper[d] = c
HexValue(c) ==
  IF \E d \in 1..10 : HexDigits[d] = c
  THEN (CHOOSE d \in 1..10 : HexDigits[d] = c) - 1
  ELSE (CHOOSE d \in 1..6 : HexLettersLower[d] = c \/ HexLettersUpper[d] = c) + 9

\* C6: key resolution. An unset variable, a value whose length is not 32, or a
\* value with any non-hexadecimal character gives exactly the built-in key; a
\* value of 32 hexadecimal characters of either case gives the 16 bytes whose
\* byte i is 16 * value(char 2i) + value(char 2i + 1).
C6_KeyFallback ==
  (fpc = "once" /\ farg.fn = "resolveKey") =>
    LET e == farg.env
        valid == e.set /\ Len(e.val) = 32 /\ \A i \in 1..32 : IsHexChar(e.val[i])
    IN  /\ Len(fres[1]) = 16
        /\ ~valid => fres[1] = DEFAULT_KEY
        /\ valid => \A i \in 1..16 :
                      fres[1][i] = 16 * HexValue(e.val[2 * i - 1]) + HexValue(e.val[2 * i])

\* C6 witness: a 32-character value with one non-hexadecimal character resolved
\* to the built-in key.
C6_Witness ==
  /\ fpc = "once" /\ farg.fn = "resolveKey" /\ farg.env.set
  /\ Len(farg.env.val) = 32 /\ farg.env.val[32] = 103
  /\ \A i \in 1..31 : IsHexChar(farg.env.val[i])
  /\ fres[1] = DEFAULT_KEY

(***************************************************************************)
(* The supervisor: src/launcher/src/main.cpp.                               *)
(*                                                                         *)
(* main() runs one statement per action while no signal handler is active. *)
(* A delivered SIGINT or SIGTERM runs onSignal on top of whatever main (or  *)
(* an onSignal for the other signal) was doing; onSignal never returns.     *)
(* The children are processes of their own: created by fork(), they exec,   *)
(* run, and exit at any time.                                               *)
(***************************************************************************)
Roles == {"rag", "ts"}
Sibling(r) == IF r = "rag" THEN "ts" ELSE "rag"

\* the process ids fork() returns to the parent
PidOf(r) == IF r = "rag" THEN 2 ELSE 3
IsChildPid(p) == \E r \in Roles : PidOf(r) = p
RoleOfPid(p) == CHOOSE r \in Roles : PidOf(r) = p

Signals == {"SIGINT", "SIGTERM"}
SigNum(sig) == IF sig = "SIGINT" THEN 2 ELSE 15

\* wait statuses: exit code in bits 8..15, terminating signal in bits 0..6
ExitedStatus(code) == code * 256
SignaledStatus(sig) == SigNum(sig)
WIFEXITED(st) == (st % 128) = 0
WEXITSTATUS(st) == (st \div 256) % 256

\* how a child that ran may end: exit codes 0, 3 and 7, or killed by SIGTERM
ChildStatuses == {ExitedStatus(0), ExitedStatus(3), ExitedStatus(7), SignaledStatus("SIGTERM")}

Alive(r) == child[r].st \in {"forked", "running"}
Unreaped(r) == child[r].st \in {"forked", "running", "zombie"}

NoSignal == [taken |-> FALSE, sig |-> "", pc |-> "", rag |-> "", ts |-> ""]

InitSup ==
  /\ pc = "signal_int"
  /\ hstack = <<>>
  /\ ragPid = -1 /\ tsPid = -1 /\ forkRet = -1
  /\ disp = [s \in Signals |-> "default"]
  /\ child = [r \in Roles |-> [st |-> "none", status |-> 0]]
  /\ status = 0 /\ finished = -1 /\ tcArg = -1
  /\ exitCode = -1 /\ exitHow = ""
  /\ hist = [termSent |-> [r \in Roles |-> 0],
             staleKills |-> 0, staleWaits |-> 0,
             events |-> <<>>,
             startFail |-> [r \in Roles |-> ""],
             firstExit |-> "",
             siblingAtWait |-> "",
             delivered |-> {},
             firstSignal |-> NoSignal]
  /\ BootIdle /\ FnIdle

MainRuns(at) == pc = at /\ hstack = <<>>

Event(e) == [hist EXCEPT !.events = Append(@, e)]

\* kill(pid, SIGTERM), pid > 0: the signal reaches the child with that pid, or,
\* once that child was reaped, a pid that is no longer the child's
KillEffect(h, pid) ==
  IF IsChildPid(pid) /\ Unreaped(RoleOfPid(pid))
  THEN [h EXCEPT !.termSent[RoleOfPid(pid)] = @ + 1]
  ELSE [h EXCEPT !.staleKills = @ + 1]

\* a variant of WaitpidReturns for comparison: waitpid returns only for a
\* child that has exited and is not yet reaped
WaitpidReturnsForZombie(pid) == IsChildPid(pid) /\ child[RoleOfPid(pid)].st = "zombie"

\* waitpid(pid, nullptr, 0) can return: the child is a zombie (it is reaped), or
\* it is no child of the caller any more (ECHILD)
WaitpidReturns(pid) == ~(IsChildPid(pid) /\ Alive(RoleOfPid(pid)))

WaitpidChild(pid) ==
  IF IsChildPid(pid) /\ child[RoleOfPid(pid)].st = "zombie"
  THEN [child EXCEPT ![RoleOfPid(pid)].st = "reaped"]
  ELSE child

WaitpidHist(h, pid) ==
  IF IsChildPid(pid) /\ child[RoleOfPid(pid)].st = "zombie" THEN h
  ELSE [h EXCEPT !.staleWaits = @ + 1]

\* std::signal(SIGINT, onSignal)
InstallSigint ==
  /\ MainRuns("signal_int")
  /\ disp' = [disp EXCEPT !["SIGINT"] = "onSignal"]
  /\ pc' = "signal_term"
  /\ hist' = Event("signal_int")
  /\ UNCHANGED <<hstack, ragPid, tsPid, forkRet, child, status, finished, tcArg,
                 exitCode, exitHow, bootVars, fnVars>>

\* std::signal(SIGTERM, onSignal)
InstallSigterm ==
  /\ MainRuns("signal_term")
  /\ disp' = [disp EXCEPT !["SIGTERM"] = "onSignal"]
  /\ pc' = "init"
  /\ hist' = Event("signal_term")
  /\ UNCHANGED <<hstack, ragPid, tsPid, forkRet, child, status, finished, tcArg,
                 exitCode, exitHow, bootVars, fnVars>>

\* lines 41-53: paths, port, and setenv of APP_ROOT, RAG_CACHE_DIR, RAG_SERVER_URL
SetupEnv ==
  /\ MainRuns("init")
  /\ pc' = "fork_rag"
  /\ hist' = Event("setenv")
  /\ UNCHANGED <<hstack, ragPid, tsPid, forkRet, disp, child, status, finished, tcArg,
                 exitCode, exitHow, bootVars, fnVars>>

\* fork() for role r: the child exists from here on, or fork fails with -1; the
\* returned value is not stored yet
Fork(r, at, next) ==
  /\ MainRuns(at)
  /\ \E ok \in BOOLEAN :
       IF ok
       THEN /\ child' = [child EXCEPT ![r].st = "forked"]
            /\ forkRet' = PidOf(r)
            /\ hist' = Event(at)
       ELSE /\ child' = child
            /\ forkRet' = -1
            /\ hist' = [Event(at) EXCEPT !.startFail[r] = "fork"]
  /\ pc' = next
  /\ UNCHANGED <<hstack, ragPid, tsPid, disp, status, finished, tcArg,
                 exitCode, exitHow, bootVars, fnVars>>

\* ragPid = fork(): the call
ForkRag == Fork("rag", "fork_rag", "store_rag")

\* a variant of StoreRag for comparison: no stagger wait, the frontend is
\* forked next
StoreRagNoStagger ==
  /\ MainRuns("store_rag")
  /\ ragPid' = forkRet
  /\ pc' = "fork_ts"
  /\ UNCHANGED <<hstack, tsPid, forkRet, disp, child, status, finished, tcArg,
                 exitCode, exitHow, hist, bootVars, fnVars>>

\* ragPid = fork(): the store; in the parent ragPid is not 0
StoreRag ==
  /\ MainRuns("store_rag")
  /\ ragPid' = forkRet
  /\ pc' = "sleep"
  /\ UNCHANGED <<hstack, tsPid, forkRet, disp, child, status, finished, tcArg,
                 exitCode, exitHow, hist, bootVars, fnVars>>

\* std::this_thread::sleep_for(std::chrono::seconds(1))
Sleep ==
  /\ MainRuns("sleep")
  /\ pc' = "fork_ts"
  /\ hist' = Event("sleep")
  /\ UNCHANGED <<hstack, ragPid, tsPid, forkRet, disp, child, status, finished, tcArg,
                 exitCode, exitHow, bootVars, fnVars>>

\* tsPid = fork(): the call
ForkTs == Fork("ts", "fork_ts", "store_ts")

\* tsPid = fork(): the store
StoreTs ==
  /\ MainRuns("store_ts")
  /\ tsPid' = forkRet
  /\ pc' = "wait"
  /\ UNCHANGED <<hstack, ragPid, forkRet, disp, child, status, finished, tcArg,
                 exitCode, exitHow, hist, bootVars, fnVars>>

\* pid_t finished = wait(&status): returns a child that has exited (any one of
\* them when both have), or -1 at once when there is no child to wait for;
\* blocks while children run and none has exited
Wait ==
  /\ MainRuns("wait")
  /\ \/ \E r \in Roles :
          /\ child[r].st = "zombie"
          /\ child' = [child EXCEPT ![r].st = "reaped"]
          /\ status' = child[r].status
          /\ finished' = PidOf(r)
          /\ hist' = [Event("wait") EXCEPT !.siblingAtWait = child[Sibling(r)].st]
     \/ /\ \A r \in Roles : ~Unreaped(r)
        /\ UNCHANGED <<child, status>>
        /\ finished' = -1
        /\ hist' = Event("wait")
  /\ pc' = "branch"
  /\ UNCHANGED <<hstack, ragPid, tsPid, forkRet, disp, tcArg, exitCode, exitHow,
                 bootVars, fnVars>>

\* lines 73-77 and the test of terminateChild: which pid, if any, is terminated
Branch ==
  /\ MainRuns("branch")
  /\ LET target == IF finished = tsPid THEN ragPid
                   ELSE IF finished = ragPid THEN tsPid
                   ELSE -1
     IN  /\ tcArg' = target
         /\ pc' = IF target > 0 THEN "tc_kill" ELSE "return"
  /\ UNCHANGED <<hstack, ragPid, tsPid, forkRet, disp, child, status, finished,
                 exitCode, exitHow, hist, bootVars, fnVars>>

\* terminateChild in main: kill(pid, SIGTERM)
TcKill ==
  /\ MainRuns("tc_kill")
  /\ hist' = KillEffect(hist, tcArg)
  /\ pc' = "tc_wait"
  /\ UNCHANGED <<hstack, ragPid, tsPid, forkRet, disp, child, status, finished, tcArg,
                 exitCode, exitHow, bootVars, fnVars>>

\* a variant of TcWait for comparison: waitpid(pid, &status, 0), the sibling's
\* status overwrites the one wait() returned
TcWaitKeepsStatus ==
  /\ MainRuns("tc_wait")
  /\ WaitpidReturns(tcArg)
  /\ child' = WaitpidChild(tcArg)
  /\ hist' = WaitpidHist(hist, tcArg)
  /\ status' = IF IsChildPid(tcArg) THEN child[RoleOfPid(tcArg)].status ELSE status
  /\ pc' = "return"
  /\ UNCHANGED <<hstack, ragPid, tsPid, forkRet, disp, finished, tcArg,
                 exitCode, exitHow, bootVars, fnVars>>

\* a variant of TcWait for comparison: waitpid(pid, nullptr, WNOHANG), which
\* does not wait for the child to end
TcWaitNoHang ==
  /\ MainRuns("tc_wait")
  /\ child' = WaitpidChild(tcArg)
  /\ hist' = WaitpidHist(hist, tcArg)
  /\ pc' = "return"
  /\ UNCHANGED <<hstack, ragPid, tsPid, forkRet, disp, status, finished, tcArg,
                 exitCode, exitHow, bootVars, fnVars>>

\* terminateChild in main: waitpid(pid, nullptr, 0); the status is discarded
TcWait ==
  /\ MainRuns("tc_wait")
  /\ WaitpidReturns(tcArg)
  /\ child' = WaitpidChild(tcArg)
  /\ hist' = WaitpidHist(hist, tcArg)
  /\ pc' = "return"
  /\ UNCHANGED <<hstack, ragPid, tsPid, forkRet, disp, status, finished, tcArg,
                 exitCode, exitHow, bootVars, fnVars>>

\* a variant of Return for comparison: a restart policy, the children are
\* started again when the observed child did not exit with code 0
ReturnRestarts ==
  /\ MainRuns("return")
  /\ IF WIFEXITED(status) /\ WEXITSTATUS(status) = 0
     THEN /\ exitCode' = 0
          /\ exitHow' = "return"
          /\ pc' = "done"
     ELSE /\ pc' = "fork_rag"
          /\ UNCHANGED <<exitCode, exitHow>>
  /\ UNCHANGED <<hstack, ragPid, tsPid, forkRet, disp, child, status, finished, tcArg,
                 hist, bootVars, fnVars>>

\* return WIFEXITED(status) ? WEXITSTATUS(status) : 1
Return ==
  /\ MainRuns("return")
  /\ exitCode' = IF WIFEXITED(status) THEN WEXITSTATUS(status) ELSE 1
  /\ exitHow' = "return"
  /\ pc' = "done"
  /\ UNCHANGED <<hstack, ragPid, tsPid, forkRet, disp, child, status, finished, tcArg,
                 hist, bootVars, fnVars>>

(***************************************************************************)
(* onSignal and the delivery of signals.  hstack holds one frame per        *)
(* onSignal in progress, the innermost last: the signal it handles, which   *)
(* terminateChild call it is in (tsPid first, ragPid second), the step of   *)
(* that call, and the pid passed to it.                                     *)
(***************************************************************************)
\* an onSignal is in progress in a supervisor that has not ended
InHandler == hstack # <<>> /\ pc # "done"
Top == hstack[Len(hstack)]
SetTop(f) == [hstack EXCEPT ![Len(hstack)] = f]
PidVar(who) == IF who = "ts" THEN tsPid ELSE ragPid
AfterCall(who) == IF who = "ts" THEN [who |-> "rag", step |-> "call"]
                  ELSE [who |-> "", step |-> "exit"]

\* A SIGINT or SIGTERM arrives.  Before std::signal has installed onSignal the
\* default disposition kills the supervisor.  While onSignal handles a signal
\* that signal stays blocked, and onSignal never returns, so each of the two
\* signals starts onSignal at most once; the other one can interrupt it.
Deliver(sig) ==
  /\ pc # "done"
  /\ sig \notin hist.delivered
  /\ IF disp[sig] = "default"
     THEN /\ pc' = "done"
          /\ exitHow' = "killed"
          /\ hstack' = hstack
          /\ hist' = [hist EXCEPT !.delivered = @ \cup {sig}]
     ELSE /\ pc' = pc
          /\ exitHow' = exitHow
          /\ hstack' = Append(hstack, [sig |-> sig, who |-> "ts", step |-> "call", arg |-> -1])
          /\ hist' = [hist EXCEPT !.delivered = @ \cup {sig},
                                  !.firstSignal =
                                     IF @.taken THEN @
                                     ELSE [taken |-> TRUE, sig |-> sig, pc |-> pc,
                                           rag |-> child["rag"].st, ts |-> child["ts"].st]]
  /\ UNCHANGED <<ragPid, tsPid, forkRet, disp, child, status, finished, tcArg,
                 exitCode, bootVars, fnVars>>

\* onSignal: terminateChild(tsPid), then terminateChild(ragPid): the argument is
\* read from the global and tested, if (pid > 0)
HandlerCall ==
  /\ InHandler /\ Top.step = "call"
  /\ LET pid == PidVar(Top.who)
         nxt == AfterCall(Top.who)
     IN  hstack' = SetTop(IF pid > 0
                          THEN [Top EXCEPT !.step = "kill", !.arg = pid]
                          ELSE [Top EXCEPT !.who = nxt.who, !.step = nxt.step])
  /\ UNCHANGED <<pc, ragPid, tsPid, forkRet, disp, child, status, finished, tcArg,
                 exitCode, exitHow, hist, bootVars, fnVars>>

\* a variant of HandlerKill for comparison: the signal is sent only once the
\* child has exited
HandlerKillAfterExit ==
  /\ InHandler /\ Top.step = "kill"
  /\ WaitpidReturns(Top.arg)
  /\ hist' = KillEffect(hist, Top.arg)
  /\ hstack' = SetTop([Top EXCEPT !.step = "wait"])
  /\ UNCHANGED <<pc, ragPid, tsPid, forkRet, disp, child, status, finished, tcArg,
                 exitCode, exitHow, bootVars, fnVars>>

\* terminateChild in onSignal: kill(pid, SIGTERM)
HandlerKill ==
  /\ InHandler /\ Top.step = "kill"
  /\ hist' = KillEffect(hist, Top.arg)
  /\ hstack' = SetTop([Top EXCEPT !.step = "wait"])
  /\ UNCHANGED <<pc, ragPid, tsPid, forkRet, disp, child, status, finished, tcArg,
                 exitCode, exitHow, bootVars, fnVars>>

\* terminateChild in onSignal: waitpid(pid, nullptr, 0)
HandlerWait ==
  /\ InHandler /\ Top.step = "wait"
  /\ WaitpidReturns(Top.arg)
  /\ child' = WaitpidChild(Top.arg)
  /\ hist' = WaitpidHist(hist, Top.arg)
  /\ LET nxt == AfterCall(Top.who)
     IN  hstack' = SetTop([Top EXCEPT !.who = nxt.who, !.step = nxt.step])
  /\ UNCHANGED <<pc, ragPid, tsPid, forkRet, disp, status, finished, tcArg,
                 exitCode, exitHow, bootVars, fnVars>>

\* onSignal: std::_Exit(0)
HandlerExit ==
  /\ InHandler /\ Top.step = "exit"
  /\ exitCode' = 0
  /\ exitHow' = "handler"
  /\ pc' = "done"
  /\ UNCHANGED <<hstack, ragPid, tsPid, forkRet, disp, child, status, finished, tcArg,
                 hist, bootVars, fnVars>>

(***************************************************************************)
(* The children, from fork() on: the branch of main that runs in the child  *)
(* (execl, and on its failure perror and std::_Exit(1)), and the program    *)
(* exec started, which ends when it chooses or when a signal kills it.      *)
(***************************************************************************)
ChildUnchanged ==
  UNCHANGED <<pc, hstack, ragPid, tsPid, forkRet, disp, status, finished, tcArg,
              exitCode, exitHow, bootVars, fnVars>>

\* execl(...) succeeds: the child is now the backend or the frontend
ExecOk(r) ==
  /\ pc # "done"
  /\ child[r].st = "forked"
  /\ child' = [child EXCEPT ![r].st = "running"]
  /\ hist' = hist
  /\ ChildUnchanged

\* execl(...) returns: std::perror("Failed to start ..."); std::_Exit(1)
ExecFail(r) ==
  /\ pc # "done"
  /\ child[r].st = "forked"
  /\ child' = [child EXCEPT ![r] = [st |-> "zombie", status |-> ExitedStatus(1)]]
  /\ hist' = [hist EXCEPT !.startFail[r] = "exec",
                          !.firstExit = IF @ = "" THEN r ELSE @]
  /\ ChildUnchanged

\* the running program ends with wait status s
ChildExit(r, s) ==
  /\ pc # "done"
  /\ child[r].st = "running"
  /\ child' = [child EXCEPT ![r] = [st |-> "zombie", status |-> s]]
  /\ hist' = [hist EXCEPT !.firstExit = IF @ = "" THEN r ELSE @]
  /\ ChildUnchanged

NextSup ==
  \/ InstallSigint
  \/ InstallSigterm
  \/ SetupEnv
  \/ ForkRag
  \/ StoreRag
  \/ Sleep
  \/ ForkTs
  \/ StoreTs
  \/ Wait
  \/ Branch
  \/ TcKill
  \/ TcWait
  \/ Return
  \/ \E sig \in Signals : Deliver(sig)
  \/ HandlerCall
  \/ HandlerKill
  \/ HandlerWait
  \/ HandlerExit
  \/ \E r \in Roles : ExecOk(r)
  \/ \E r \in Roles : ExecFail(r)
  \/ \E r \in Roles, s \in ChildStatuses : ChildExit(r, s)

SpecSup == InitSup /\ [][NextSup]_vars

(***************************************************************************)
(* Claims about the supervisor.                                             *)
(***************************************************************************)
SupExited == pc = "done"
BothStarted == ragPid > 0 /\ tsPid > 0
CodeOf(st) == IF WIFEXITED(st) THEN WEXITSTATUS(st) ELSE 1

C8_CascadeTermination ==
  /\ (SupExited /\ BothStarted /\ finished \in {ragPid, tsPid}) =>
        LET sib == Sibling(RoleOfPid(finished))
        IN  /\ child[sib].st = "reaped"
            /\ hist.termSent[sib] >= 1
  /\ (pc \in {"tc_wait", "return"} /\ BothStarted /\ finished \in {ragPid, tsPid}) =>
        hist.termSent[Sibling(RoleOfPid(finished))] >= 1

\* C8 witness: the frontend exited first while the backend was running; the
\* backend was signaled once and reaped before main returned
C8_Witness ==
  /\ SupExited /\ exitHow = "return" /\ BothStarted
  /\ finished = tsPid
  /\ hist.siblingAtWait = "running"
  /\ hist.termSent["rag"] = 1
  /\ child["rag"].st = "reaped"

\* C9: a SIGINT or SIGTERM that onSignal takes while both children are running
\* leads to both of them being sent SIGTERM and reaped before the supervisor
\* exits, and to exit code 0.
C9_SignalShutdown ==
  (SupExited /\ hist.firstSignal.taken
     /\ hist.firstSignal.rag = "running" /\ hist.firstSignal.ts = "running") =>
     /\ exitHow = "handler" /\ exitCode = 0
     /\ \A r \in Roles : hist.termSent[r] >= 1 /\ child[r].st = "reaped"

\* C10: once the backend has failed to start (fork failed, or its executable
\* could not be executed) the supervisor neither completes the stagger wait nor
\* starts the frontend, and it never exits with code 0.
C10_BackendSpawnFatal ==
  /\ [][hist.startFail["rag"] # "" =>
          /\ ~(pc = "sleep" /\ pc' = "fork_ts")
          /\ ~(child["ts"].st = "none" /\ child'["ts"].st # "none")]_vars
  /\ [](hist.startFail["rag"] # "" /\ SupExited => exitCode # 0)

\* C11: when the frontend fails to start after the backend was started, the
\* supervisor does not go on to wait with the backend as its only child, and
\* when main returns the backend has been sent SIGTERM and reaped and the exit
\* code is not 0.
C11_FrontendSpawnFatal ==
  /\ (hist.startFail["ts"] = "fork" /\ ragPid > 0) =>
        /\ ~(pc \in {"wait", "branch"})
        /\ (SupExited /\ exitHow = "return") =>
              /\ exitCode # 0
              /\ hist.termSent["rag"] >= 1
              /\ child["rag"].st = "reaped"
  /\ (hist.startFail["ts"] = "exec" /\ ragPid > 0 /\ finished = tsPid
        /\ SupExited /\ exitHow = "return") =>
        /\ exitCode # 0
        /\ hist.termSent["rag"] >= 1
        /\ child["rag"].st = "reaped"

MainOrder ==
  <<"signal_int", "signal_term", "init", "fork_rag", "store_rag", "sleep", "fork_ts",
    "store_ts", "wait", "branch", "tc_kill", "tc_wait", "return", "done">>
PcRank(p) == CHOOSE i \in 1..Len(MainOrder) : MainOrder[i] = p
ChildOrder == <<"none", "forked", "running", "zombie", "reaped">>
ChildRank(st) == CHOOSE i \in 1..Len(ChildOrder) : ChildOrder[i] = st
Times(e) == Cardinality({i \in 1..Len(hist.events) : hist.events[i] = e})

\* C12: no restart.  main never goes back to an earlier statement, so each of
\* the two fork() calls, the wait() and the cascade run at most once; a child
\* that was created is never created again; a supervisor that returned has
\* observed one child exit and run one cascade; and from the exited state no
\* step is taken.
C12_NoRestart ==
  /\ [][PcRank(pc') >= PcRank(pc)]_vars
  /\ [][\A r \in Roles : ChildRank(child'[r].st) >= ChildRank(child[r].st)]_vars
  /\ [][~SupExited]_vars
  /\ [](\A e \in {"fork_rag", "fork_ts", "wait"} : Times(e) <= 1)
  /\ []((SupExited /\ exitHow = "return") => Times("wait") = 1)
  /\ []((SupExited /\ exitHow = "return" /\ BothStarted /\ ~hist.firstSignal.taken) =>
           hist.termSent[Sibling(RoleOfPid(finished))] = 1)

\* C12 witness: both children ran, one exit was observed, the sibling was
\* signaled once and reaped, and main returned
C12_Witness ==
  /\ SupExited /\ exitHow = "return" /\ BothStarted
  /\ ~hist.firstSignal.taken
  /\ hist.siblingAtWait = "running"
  /\ \A r \in Roles : child[r].st = "reaped"
  /\ hist.termSent[Sibling(RoleOfPid(finished))] = 1
  /\ Times("fork_rag") = 1 /\ Times("fork_ts") = 1

\* C15: a SIGINT or SIGTERM taken while main is blocked in wait() interrupts
\* the wait: main never gets past it, the supervisor leaves through onSignal,
\* onSignal's way to its first kill is open whatever the children do (no
\* child has to exit first), and at exit every child that was alive at the
\* delivery has been sent SIGTERM.
C15_SignalInterruptsWait ==
  (hist.firstSignal.taken /\ hist.firstSignal.pc = "wait") =>
     /\ pc \in {"wait", "done"}
     /\ SupExited => exitHow = "handler"
     /\ (InHandler /\ Top.step \in {"call", "kill"}) => ENABLED (HandlerCall \/ HandlerKill)
     /\ SupExited => \A r \in Roles :
                        hist.firstSignal[r] \in {"forked", "running"} => hist.termSent[r] >= 1

\* C15 witness: the signal came while main was in wait() with both children
\* running; the frontend has been signaled and no child has exited
C15_Witness ==
  /\ hist.firstSignal.taken /\ hist.firstSignal.pc = "wait"
  /\ pc = "wait" /\ InHandler
  /\ hist.firstExit = ""
  /\ child["rag"].st = "running" /\ child["ts"].st = "running"
  /\ hist.termSent["ts"] = 1

StateOrder == <<"signal_int", "signal_term", "setenv", "fork_rag", "sleep", "fork_ts", "wait">>
IsPrefix(s, t) == Len(s) <= Len(t) /\ s = SubSeq(t, 1, Len(s))

\* C16: main's statements run in the order handlers, environment, backend
\* fork, stagger wait, frontend fork, wait: no child exists before the
\* environment is set, the frontend is created only after the backend's fork
\* and the stagger wait, wait() is called only after both forks, and the
\* cascade and the return come only after wait().
C16_StateOrder ==
  /\ IsPrefix(hist.events, StateOrder)
  /\ child["rag"].st # "none" => Times("setenv") = 1
  /\ child["ts"].st # "none" => (Times("fork_rag") = 1 /\ Times("sleep") = 1)
  /\ pc = "wait" => (Times("fork_rag") = 1 /\ Times("fork_ts") = 1)
  /\ pc \in {"branch", "tc_kill", "tc_wait", "return"} => Times("wait") = 1
  /\ (SupExited /\ exitHow = "return") => hist.events = StateOrder

\* C16 witness: both children running and main in wait() after the six steps
C16_Witness ==
  /\ pc = "wait" /\ ~InHandler
  /\ hist.events = SubSeq(StateOrder, 1, 6)
  /\ child["rag"].st = "running" /\ child["ts"].st = "running"

\* C19: onSignal itself sends no signal to a child and reaps none: while an
\* onSignal is in progress no kill is issued and no child goes from exited to
\* reaped.
C19_HandlerOnlyRecords ==
  [][InHandler =>
       /\ hist'.termSent = hist.termSent
       /\ hist'.staleKills = hist.staleKills
       /\ \A r \in Roles : child'[r].st = "reaped" => child[r].st = "reaped"]_vars

\* C20: whenever the supervisor, reacting to a signal, is blocked waiting for
\* a child, every child that is alive has been sent SIGTERM.
C20_ImmediateSignaling ==
  (InHandler /\ Top.step = "wait" /\ ~WaitpidReturns(Top.arg)) =>
     \A r \in Roles : Alive(r) => hist.termSent[r] >= 1

(***************************************************************************)
(* Further claims about the unpacker.                                       *)
(***************************************************************************)
StageOrder ==
  <<"selfpath", "open", "size", "footer", "validate", "payload", "key", "auth",
    "decrypt", "mkdtemp", "write", "extract", "locate", "setenv", "execl">>

\* the diagnostics a failure of each stage writes
StageErrors(stage) ==
  CASE stage = "selfpath" -> {ErrSelfPath}
    [] stage = "open" -> {ErrOpen}
    [] stage = "size" -> {ErrTooSmall}
    [] stage = "footer" -> {ErrReadFooter}
    [] stage = "validate" -> {ErrMagic, ErrPayloadSize}
    [] stage = "payload" -> {ErrVectorLength, ErrReadPayload}
    [] stage = "auth" -> {ErrAuthTag}
    [] stage = "mkdtemp" -> {ErrMkdtemp}
    [] stage = "write" -> {ErrWriteTar}
    [] stage = "extract" -> {ErrExtract}
    [] stage = "locate" -> {ErrNoLauncher}
    [] stage = "execl" -> {ErrExecl}
    [] OTHER -> {}

\* C13: a failure of any stage is terminal.  The stages run in their order,
\* none twice; a diagnostic is written exactly when the run has failed; a
\* failed run has exit status 1, its diagnostic is one of the stage that ran
\* last, and no further step is taken.
C13_FailureTerminal ==
  /\ IsPrefix(stages, StageOrder)
  /\ (err # "") <=> (bpc = "failed")
  /\ (bexit # -1) <=> (bpc = "failed")
  /\ bpc = "failed" =>
        /\ bexit = 1
        /\ stages # <<>>
        /\ err \in StageErrors(stages[Len(stages)])
        /\ ~ENABLED Next

\* C13 witness: the extraction went through, the inner executable is missing
C13_Witness ==
  /\ bpc = "failed" /\ bexit = 1
  /\ err = ErrNoLauncher
  /\ fs.extracted /\ ~fs.launcher
  /\ stages = SubSeq(StageOrder, 1, 13)

\* C14: the handoff is attempted only after the archive tool returned 0 and
\* the inner executable was found in the temp directory, with APP_ROOT set by
\* then; a nonzero status or a missing executable fails the run with APP_ROOT
\* unset and no exec attempted.
C14_HandoffPreconditions ==
  /\ (bpc \in {"execl", "handoff"} \/ Did("execl")) =>
        /\ fs.tempDir /\ fs.extracted /\ fs.launcher /\ fs.appRoot
        /\ Did("extract") /\ Did("locate") /\ Did("setenv")
  /\ bpc = "handoff" => (err = "" /\ bexit = -1)
  /\ (Did("extract") /\ ~fs.extracted) => (bpc = "failed" /\ err = ErrExtract)
  /\ (Did("locate") /\ ~fs.launcher) => (bpc = "failed" /\ err = ErrNoLauncher)
  /\ err \in {ErrExtract, ErrNoLauncher} =>
        /\ bpc = "failed" /\ bexit = 1
        /\ ~fs.appRoot /\ ~Did("setenv") /\ ~Did("execl")

\* C14 witness: control was transferred
C14_Witness ==
  /\ bpc = "handoff"
  /\ fs.extracted /\ fs.launcher /\ fs.appRoot
  /\ stages = StageOrder

\* C18: the authentication step changes nothing but the computed tag and the
\* outcome; the verdict is a function of key, nonce, ciphertext and stored
\* tag; and a run that failed authentication has created no directory and
\* written no file.
C18_AuthSideEffectFree ==
  /\ [][bpc = "auth" =>
          /\ payload' = payload /\ nonce' = nonce /\ key' = key /\ authTag' = authTag
          /\ image' = image /\ fs' = fs]_vars
  /\ []((stages # <<>> /\ stages[Len(stages)] = "auth") =>
          /\ computedTag = computeAuthTag(payload, nonce, key)
          /\ (err = ErrAuthTag) <=> ~TagsEqual(computeAuthTag(payload, nonce, key), authTag))
  /\ [](err = ErrAuthTag => fs = NoFs)

\* C18 witness: a run that failed authentication
C18_Witness ==
  /\ bpc = "failed" /\ err = ErrAuthTag
  /\ fs = NoFs
  /\ payload = CiphertextOf(image)

(***************************************************************************)
(* Further claims about the cipher.                                         *)
(***************************************************************************)
\* the generator after n calls of splitmix64 from the given state
RECURSIVE GenAfter(_, _)
GenAfter(state, n) ==
  IF n = 0 THEN [state |-> state, out |-> U64Zero]
  ELSE splitmix64(GenAfter(state, n - 1).state)

\* output number k (from 0) of the generator seeded for this key and nonce
KeystreamWord(k, nc, n) == GenAfter(fnv1a64(<<k, nc, STREAM_V1>>, FNV1A_OFFSET), n + 1).out

\* C17: keystream alignment.  decryptPayload keeps the length; byte i (from 0)
\* of its result is the input byte XORed with byte (i mod 8), counted from the
\* least significant, of generator output number (i div 8); and the loop calls
\* the generator ceil(n / 8) times for n bytes, not at all for none.
C17_KeystreamAlignment ==
  (fpc \in {"once", "twice"} /\ farg.fn = "decryptPayload") =>
     LET inp == farg.payload
         out == fres[1]
     IN  /\ Len(out) = Len(inp)
         /\ \A i \in 0..(Len(inp) - 1) :
               out[i + 1] = XorByte(inp[i + 1],
                                    KeystreamWord(farg.key, farg.nonce, i \div 8)[(i % 8) + 1])
         /\ decryptCalls(Len(inp), 1, 8) = (Len(inp) + 7) \div 8

\* C17 witness: a payload that needs a second generator output
C17_Witness ==
  /\ fpc = "once" /\ farg.fn = "decryptPayload"
  /\ Len(farg.payload) > 8
  /\ Len(fres[1]) = Len(farg.payload)
  /\ fres[1][9] = XorByte(farg.payload[9], KeystreamWord(farg.key, farg.nonce, 1)[1])
  /\ decryptCalls(Len(farg.payload), 1, 8) = 2

(***************************************************************************)
(* Further claims about the supervisor.                                     *)
(***************************************************************************)
\* C21: the supervisor never calls kill or waitpid with the pid of a child it
\* has already reaped, and no child is sent SIGTERM more than once.
C21_NoStalePidOps ==
  /\ hist.staleKills = 0
  /\ hist.staleWaits = 0
  /\ \A r \in Roles : hist.termSent[r] <= 1

\* C22: when the supervisor has ended, every child it created has been reaped.
C22_NoOrphan ==
  SupExited => \A r \in Roles : child[r].st \in {"none", "reaped"}

\* C23: once wait() has reported a child, the supervisor's exit code is the
\* one that child's status gives, whatever signal arrives afterwards.
C23_ExitStatusFixed ==
  (SupExited /\ BothStarted /\ Times("wait") = 1 /\ IsChildPid(finished)) =>
     exitCode = CodeOf(child[RoleOfPid(finished)].status)

(***************************************************************************)
(* Termination of the supervisor.  The scheduler runs main and onSignal     *)
(* whenever they can take a step, and a child that has been sent SIGTERM    *)
(* does not stay alive forever.  Nothing is assumed about a child that was  *)
(* not signaled, nor about signals arriving.                                *)
(***************************************************************************)
MainStep ==
  \/ InstallSigint \/ InstallSigterm \/ SetupEnv \/ ForkRag \/ StoreRag \/ Sleep
  \/ ForkTs \/ StoreTs \/ Wait \/ Branch \/ TcKill \/ TcWait \/ Return

HandlerStep == HandlerCall \/ HandlerKill \/ HandlerWait \/ HandlerExit

\* a child that was sent SIGTERM moves on: towards its exit
SignaledChildStep(r) ==
  /\ hist.termSent[r] >= 1
  /\ \/ ExecOk(r)
     \/ ExecFail(r)
     \/ \E s \in ChildStatuses : ChildExit(r, s)

SpecSupFair ==
  /\ SpecSup
  /\ WF_vars(MainStep)
  /\ WF_vars(HandlerStep)
  /\ \A r \in Roles : WF_vars(SignaledChildStep(r))

\* C24: with both children started, once a child has exited or a signal has
\* been taken the supervisor eventually ends; and a waitpid on a pid that was
\* already reaped never blocks, in main or in onSignal.
C24_Termination ==
  /\ [](\A r \in Roles :
          /\ (MainRuns("tc_wait") /\ tcArg = PidOf(r) /\ child[r].st = "reaped") => ENABLED TcWait
          /\ (InHandler /\ Top.step = "wait" /\ Top.arg = PidOf(r) /\ child[r].st = "reaped")
                => ENABLED HandlerWait)
  /\ (BothStarted /\ (hist.firstExit # "" \/ hist.firstSignal.taken)) ~> SupExited

\* C24 witness: onSignal, entered during the cascade, waited on the pid of
\* the child main had already reaped, went on, and the supervisor ended
C24_Witness ==
  /\ SupExited /\ BothStarted
  /\ hist.firstExit # "" /\ hist.firstSignal.taken
  /\ hist.staleWaits >= 1
  /\ \A r \in Roles : child[r].st = "reaped"
====
